---- MODULE Spec2Model ----
(***************************************************************************)
(* Model of the PSoC6 (Future Electronics) RTC adaptation layer,           *)
(* targets/TARGET_Cypress/TARGET_PSOC6_FUTURE/rtc_api.c.                   *)
(*                                                                         *)
(* The state is the driver's static flag `enabled`, the backup register    *)
(* BACKUP->BREG[14] that carries the century correction, the peripheral's  *)
(* date/time record, its synchronisation (busy) status, the position of    *)
(* the one caller inside rtc_init / rtc_read / rtc_write, and that call's  *)
(* locals.  The vendor driver (cy_rtc), the calendar routines              *)
(* (_rtc_localtime, _rtc_maketime) and error() are not part of the file;   *)
(* they are modelled from what the specification says of them.             *)
(*                                                                         *)
(* TLC's integers are 32-bit signed, while a time_t of this target ranges  *)
(* over 0 .. 2^32-1.  A timestamp is therefore carried as the record       *)
(* [d |-> days since 1970-01-01, s |-> second of that day]; the value it   *)
(* stands for is d * 86400 + s.  The backup register is a natural number   *)
(* below 2^31 (the magic 0x61cafe00 is), and the code's masks and shifts   *)
(* are computed with \div and % on it.                                     *)
(***************************************************************************)
EXTENDS Integers, Sequences, FiniteSets, TLC

(***************************************************************************)
(* Bounds of the model.                                                    *)
(***************************************************************************)
\* seconds the hardware clock may advance in one behaviour
MaxTicks == 1
\* Decode calls counted in one run of the codec (longer runs count as this many)
MaxRun == 2

(***************************************************************************)
(* rtc_api.c, lines 33-38: layout of the backup register.                  *)
(***************************************************************************)
BR_CENTURY_CORR_MASK == 384
BR_CENTURY_CORR_POS == 7
BR_LAST_YEAR_READ_MASK == 127
BR_CORR_MAGIC == 1640693248

\* 1 << n
Pow2(n) == 2 ^ n

\* x & BR_LAST_YEAR_READ_MASK: the low seven bits
LastYearBits(x) == x % (BR_LAST_YEAR_READ_MASK + 1)

\* (x & BR_CENTURY_CORR_MASK) >> BR_CENTURY_CORR_POS: bits 8:7
CenturyBits(x) ==
    (x % (BR_CENTURY_CORR_MASK + Pow2(BR_CENTURY_CORR_POS)))
        \div Pow2(BR_CENTURY_CORR_POS)

\* (c << BR_CENTURY_CORR_POS) & BR_CENTURY_CORR_MASK: c's low two bits, placed
CenturyField(c) == (c % 4) * Pow2(BR_CENTURY_CORR_POS)

\* x & BR_CORR_MAGIC_MASK (0xfffffe00): everything above bit 8
MagicBits(x) == (x \div 512) * 512

\* century field | last-year field | BR_CORR_MAGIC (the three are disjoint)
PackReg(century, short_year) ==
    CenturyField(century) + LastYearBits(short_year) + BR_CORR_MAGIC

\* the uint8_t conversion of rtc_read_convert_year's parameter
U8(x) == x % 256

(***************************************************************************)
(* rtc_read_convert_year (Decode): the new register value and the year     *)
(* returned, from the register value and the hardware's two-digit year.    *)
(***************************************************************************)
\* a variant that also counts an equal year as a wrap
ReadConvertYearGE(reg, year) ==
    LET short_year == U8(year)
        last_year_read == LastYearBits(reg)
        century == IF last_year_read >= short_year
                   THEN CenturyBits(reg) + 1
                   ELSE CenturyBits(reg)
    IN  [reg |-> PackReg(century, short_year),
         ret |-> century * 100 + short_year]

\* lines 43-60
ReadConvertYear(reg, year) ==
    LET short_year == U8(year)
        last_year_read == LastYearBits(reg)
        century == IF last_year_read > short_year
                   THEN CenturyBits(reg) + 1
                   ELSE CenturyBits(reg)
    IN  [reg |-> PackReg(century, short_year),
         ret |-> century * 100 + short_year]

(***************************************************************************)
(* rtc_write_convert_year (Encode): the register value persisted and the   *)
(* two-digit year returned, from the year since 1900.                      *)
(***************************************************************************)
\* a variant that persists no century
WriteConvertYearNoCentury(long_year) ==
    LET short_year == long_year - (long_year \div 100) * 100
    IN  [reg |-> PackReg(0, short_year), ret |-> short_year]

\* lines 62-72
WriteConvertYear(long_year) ==
    LET century == long_year \div 100
        short_year == long_year - century * 100
    IN  [reg |-> PackReg(century, short_year), ret |-> short_year]

(***************************************************************************)
(* The calendar routines of mbed_mktime with RTC_4_YEAR_LEAP_YEAR_SUPPORT  *)
(* (every fourth year is a leap year), over years since 1900.              *)
(***************************************************************************)
SECONDS_BY_DAY == 86400
\* 2^32 = Time32Days * 86400 + Time32Secs: the first value a time_t cannot hold
Time32Days == 49710
Time32Secs == 23296

TS(d, s) == [d |-> d, s |-> s]
EpochTS == TS(0, 0)

\* d * 86400 + s reduced modulo 2^32, for the sums _rtc_maketime can produce
Norm32(d, s) ==
    LET dd == d + (s \div SECONDS_BY_DAY)
        ss == s % SECONDS_BY_DAY
        \* below zero: add 2^32 once
        d1 == IF dd < 0 THEN dd + Time32Days + ((ss + Time32Secs) \div SECONDS_BY_DAY)
              ELSE dd
        s1 == IF dd < 0 THEN (ss + Time32Secs) % SECONDS_BY_DAY ELSE ss
        over == d1 > Time32Days \/ (d1 = Time32Days /\ s1 >= Time32Secs)
        \* at or above 2^32: subtract 2^32 once
        s2 == IF over THEN (s1 - Time32Secs) % SECONDS_BY_DAY ELSE s1
        d2 == IF over
              THEN d1 - Time32Days - (IF s1 < Time32Secs THEN 1 ELSE 0)
              ELSE d1
    IN  TS(d2, s2)

\* whether a time_t value is one the conversion can represent (0 .. 2^32-1)
Representable(t) ==
    /\ t.d >= 0
    /\ t.s >= 0 /\ t.s < SECONDS_BY_DAY
    /\ (t.d < Time32Days \/ (t.d = Time32Days /\ t.s < Time32Secs))

IsLeapYear(year) == year % 4 = 0

DaysInYear(year) == IF IsLeapYear(year) THEN 366 ELSE 365

DaysBeforeMonth(leap) ==
    IF leap
    THEN <<0, 31, 60, 91, 121, 152, 182, 213, 244, 274, 305, 335>>
    ELSE <<0, 31, 59, 90, 120, 151, 181, 212, 243, 273, 304, 334>>

\* what a read one row past the table can yield: the code indexes it unchecked
UndefinedTableReads == {0, 365}

\* the table entries _rtc_maketime may read for the (0-based) month mon
DaysBeforeMonthRead(leap, mon) ==
    IF mon >= 0 /\ mon <= 11 THEN {DaysBeforeMonth(leap)[mon + 1]}
    ELSE UndefinedTableReads

RECURSIVE YearOfDays(_, _)
\* the loop of _rtc_localtime: the year holding day number `days` counted from
\* the first day of `year`, and the day of that year
YearOfDays(year, days) ==
    IF days >= DaysInYear(year)
    THEN YearOfDays(year + 1, days - DaysInYear(year))
    ELSE [year |-> year, yday |-> days]

\* the 0-based month holding day `yday` of a year
MonthOfYday(leap, yday) ==
    CHOOSE m \in 0..11 :
        /\ DaysBeforeMonth(leap)[m + 1] <= yday
        /\ (m = 11 \/ DaysBeforeMonth(leap)[m + 2] > yday)

NoTm == [tm_sec |-> 0, tm_min |-> 0, tm_hour |-> 0, tm_mday |-> 0,
         tm_mon |-> 0, tm_year |-> 0]

\* _rtc_localtime: whether t is representable, and its broken-down time
RtcLocaltime(t) ==
    IF ~Representable(t) THEN [ok |-> FALSE, tm |-> NoTm]
    ELSE
      LET y == YearOfDays(70, t.d)
          leap == IsLeapYear(y.year)
          mon == MonthOfYday(leap, y.yday)
      IN  [ok |-> TRUE,
           tm |-> [tm_sec |-> t.s % 60,
                   tm_min |-> (t.s \div 60) % 60,
                   tm_hour |-> t.s \div 3600,
                   tm_mday |-> y.yday - DaysBeforeMonth(leap)[mon + 1] + 1,
                   tm_mon |-> mon,
                   tm_year |-> y.year]]

\* leap days between 1970 and the start of `year` (70 < year <= 206)
LeapDaysBefore(year) == ((year - 1) \div 4) - (70 \div 4)

\* the last second of year 206 a time_t holds: 36 days, 23295 seconds into it
EdgeYear == 206
EdgeDays == 36
EdgeSecs == 23295

\* _rtc_maketime: the results it can give for a broken-down time; ok = FALSE
\* leaves the caller's timestamp untouched
RtcMaketime(tm) ==
    IF tm.tm_year < 70 \/ tm.tm_year > EdgeYear
    THEN {[ok |-> FALSE, t |-> EpochTS]}
    ELSE
      { LET secs == tm.tm_sec + tm.tm_min * 60 + tm.tm_hour * 3600
            inyear == Norm32((tm.tm_mday - 1) + before, secs)
            beyond == /\ tm.tm_year = EdgeYear
                      /\ \/ inyear.d > EdgeDays
                         \/ (inyear.d = EdgeDays /\ inyear.s > EdgeSecs)
            years == IF tm.tm_year > 70
                     THEN (tm.tm_year - 70) * 365 + LeapDaysBefore(tm.tm_year)
                     ELSE 0
        IN  IF beyond THEN [ok |-> FALSE, t |-> EpochTS]
            ELSE [ok |-> TRUE, t |-> Norm32(inyear.d + years, inyear.s)]
        : before \in DaysBeforeMonthRead(IsLeapYear(tm.tm_year), tm.tm_mon) }

(***************************************************************************)
(* The vendor driver's view of the peripheral (cy_rtc): the date/time      *)
(* record, the range checks CY_RTC_IS_*_VALID, the two programming calls   *)
(* and the status they return.                                             *)
(***************************************************************************)
CY_RTC_24_HOURS == "CY_RTC_24_HOURS"
CY_RTC_12_HOURS == "CY_RTC_12_HOURS"
CY_RTC_SATURDAY == 7
CY_RTC_SUCCESS == "CY_RTC_SUCCESS"
CY_RTC_BAD_PARAM == "CY_RTC_BAD_PARAM"
CY_RTC_INVALID_STATE == "CY_RTC_INVALID_STATE"
\* what a programming call can return: the driver may reject any request
DriverStatus == {CY_RTC_SUCCESS, CY_RTC_BAD_PARAM, CY_RTC_INVALID_STATE}
NoStatus == "none"

CY_RTC_IS_SEC_VALID(sec) == sec <= 59
CY_RTC_IS_MIN_VALID(min) == min <= 59
CY_RTC_IS_HOUR_VALID(hour) == hour <= 23
CY_RTC_IS_DOW_VALID(dow) == dow > 0 /\ dow <= 7
CY_RTC_IS_MONTH_VALID(month) == month > 0 /\ month <= 12
CY_RTC_IS_YEAR_SHORT_VALID(year) == year <= 99

Rec(fmt, sec, min, hour, dow, date, month, year) ==
    [hrFormat |-> fmt, sec |-> sec, min |-> min, hour |-> hour,
     dayOfWeek |-> dow, date |-> date, month |-> month, year |-> year]

\* the day of the week (1 = Sunday .. 7 = Saturday) the driver derives for a date
\* of its own calendar, 2000 + year; 2000-01-01 was a Saturday
ConvertDayOfWeek(date, month, year) ==
    LET days == year * 365 + ((year + 3) \div 4)
                + DaysBeforeMonth(IsLeapYear(year))[month] + (date - 1)
    IN  ((days + 6) % 7) + 1

\* the record Cy_RTC_SetDateAndTimeDirect programs
SetDateAndTimeDirect(sec, min, hour, date, month, year) ==
    Rec(CY_RTC_24_HOURS, sec, min, hour,
        ConvertDayOfWeek(date, month, year), date, month, year)

\* days of a month of the hardware calendar
DaysInMonth(month, year) ==
    LET t == DaysBeforeMonth(IsLeapYear(year))
    IN  IF month = 12 THEN 31 ELSE t[month + 1] - t[month]

\* every field of the record is one the hardware counts from
RecordCounts(r) ==
    /\ CY_RTC_IS_SEC_VALID(r.sec) /\ CY_RTC_IS_MIN_VALID(r.min)
    /\ CY_RTC_IS_HOUR_VALID(r.hour) /\ CY_RTC_IS_DOW_VALID(r.dayOfWeek)
    /\ CY_RTC_IS_MONTH_VALID(r.month) /\ CY_RTC_IS_YEAR_SHORT_VALID(r.year)
    /\ r.date >= 1 /\ r.date <= DaysInMonth(r.month, r.year)
    /\ r.hrFormat = CY_RTC_24_HOURS

\* the record one second later: the hardware's own carry chain, the two-digit
\* year wrapping from 99 to 0
NextSecond(r) ==
    IF r.sec < 59 THEN [r EXCEPT !.sec = r.sec + 1]
    ELSE IF r.min < 59 THEN [r EXCEPT !.sec = 0, !.min = r.min + 1]
    ELSE IF r.hour < 23 THEN [r EXCEPT !.sec = 0, !.min = 0, !.hour = r.hour + 1]
    ELSE
      LET dow == (r.dayOfWeek % 7) + 1
          midnight == [r EXCEPT !.sec = 0, !.min = 0, !.hour = 0, !.dayOfWeek = dow]
      IN  IF r.date < DaysInMonth(r.month, r.year)
          THEN [midnight EXCEPT !.date = r.date + 1]
          ELSE IF r.month < 12
          THEN [midnight EXCEPT !.date = 1, !.month = r.month + 1]
          ELSE [midnight EXCEPT !.date = 1, !.month = 1,
                                !.year = (r.year + 1) % 100]

(***************************************************************************)
(* State.                                                                  *)
(***************************************************************************)
VARIABLES
    enabled,        \* static int enabled
    BREG,           \* BACKUP->BREG[BR_CENTURY_CORRECTION]
    rtc,            \* the peripheral's date/time record
    busy,           \* Cy_RTC_GetSyncStatus() = CY_RTC_BUSY
    init_val_year,  \* rtc_init's static init_val.year
    op,             \* the operation the caller is in
    pc,             \* the caller's position in it
    crit,           \* interrupts are disabled (critical section held)
    arg,            \* rtc_write's parameter t
    gmt,            \* the local struct tm of rtc_read / rtc_write
    status,         \* the local status of rtc_init / rtc_write
    ret,            \* the value the finished call returns
    fatal,          \* the status error() was raised with
    lastSet,        \* history: what was last programmed, while undisturbed
    ticks,          \* seconds the clock has advanced
    codec           \* the last direct call of the year codec, and its history

vars == <<enabled, BREG, rtc, busy, init_val_year, op, pc, crit, arg, gmt,
          status, ret, fatal, lastSet, ticks, codec>>

hw == <<BREG, rtc, busy>>
locals == <<arg, gmt, status>>

NoTime == TS(-9, 0)
NoRet == [v |-> -1, t |-> NoTime]
NoSet == [by |-> "none", t |-> NoTime]
NoCodec == [op |-> "none", year |-> 0, ret |-> 0, after |-> -1, base |-> 0,
            len |-> 0, mono |-> TRUE, nowrap |-> TRUE]

(***************************************************************************)
(* Sample inputs and power-up states.                                      *)
(***************************************************************************)
\* days since 1970-01-01: 1970-01-01, 1999-12-31, 2000-02-29, 2069-12-31,
\* 2070-01-01, 2099-12-31
SampleDays == {0, 10956, 11016, 36524, 36525, 47481}
\* the first days of the centuries of the hardware year: 2000-01-01, 2100-01-01
CenturyDays == {10957, 47482}
LastSecondOfDay == SECONDS_BY_DAY - 1

\* timestamps WriteTime is called with: the first and last second of the sample
\* days, the first second of the century days, the last time_t (2^32-1), and
\* three values outside 0 .. 2^32-1
WriteTimes ==
    {TS(d, s) : d \in SampleDays, s \in {0, LastSecondOfDay}}
        \cup {TS(d, 0) : d \in CenturyDays}
        \cup {TS(Time32Days, Time32Secs - 1)}
        \cup {TS(-1, LastSecondOfDay), TS(Time32Days, Time32Secs),
              TS(Time32Days + 1, 0)}

\* the record that holds timestamp t (t representable)
RecordOf(t) ==
    LET tm == RtcLocaltime(t).tm
    IN  SetDateAndTimeDirect(tm.tm_sec, tm.tm_min, tm.tm_hour, tm.tm_mday,
                             tm.tm_mon + 1, WriteConvertYear(tm.tm_year).ret)

\* what the backup register can hold at power-up: never written (0), a wrong
\* tag over plausible fields, and written values for several centuries
InitRegs ==
    {0, 512 + 128 + 5, PackReg(0, 70), PackReg(0, 99), PackReg(1, 0),
     PackReg(1, 69), PackReg(2, 6), PackReg(3, 99)}

\* what the record can hold at power-up: running clocks, and records with one
\* field out of range each
InitRecords ==
    LET good == Rec(CY_RTC_24_HOURS, 30, 15, 12, 3, 15, 6, 85)
    IN  {RecordOf(TS(0, 0)), RecordOf(TS(10956, LastSecondOfDay)),
         RecordOf(TS(36524, LastSecondOfDay)), good,
         [good EXCEPT !.year = 20],
         [good EXCEPT !.sec = 60], [good EXCEPT !.min = 60],
         [good EXCEPT !.hour = 24], [good EXCEPT !.dayOfWeek = 0],
         [good EXCEPT !.date = 0], [good EXCEPT !.date = 32],
         [good EXCEPT !.month = 0], [good EXCEPT !.month = 13],
         [good EXCEPT !.year = 100],
         [good EXCEPT !.hrFormat = CY_RTC_12_HOURS]}

\* what a power malfunction of the backup domain leaves in the register
GlitchRegs == {0, 512 + 3 * 128 + 99}

Init ==
    /\ enabled = 0
    /\ BREG \in InitRegs
    /\ rtc \in InitRecords
    /\ busy \in BOOLEAN
    /\ init_val_year = 0
    /\ op = "none"
    /\ pc = "idle"
    /\ crit = FALSE
    /\ arg = NoTime
    /\ gmt = NoTm
    /\ status = NoStatus
    /\ ret = NoRet
    /\ fatal = NoStatus
    /\ lastSet = NoSet
    /\ ticks = 0
    /\ codec = NoCodec

(***************************************************************************)
(* The caller: one operation at a time (single core, no re-entrance).      *)
(***************************************************************************)
ClearLocals == arg' = NoTime /\ gmt' = NoTm /\ status' = NoStatus

\* a call returns: the caller is idle again
Return ==
    /\ pc = "ret"
    /\ pc' = "idle" /\ op' = "none" /\ ret' = NoRet
    /\ ClearLocals
    /\ UNCHANGED <<enabled, hw, init_val_year, crit, fatal, lastSet, ticks, codec>>

(***************************************************************************)
(* rtc_init                                                                *)
(***************************************************************************)
\* a variant that does not look at the magic tag
InitFieldsValidNoMagic(cy_time, reg) ==
    /\ CY_RTC_IS_SEC_VALID(cy_time.sec)
    /\ CY_RTC_IS_MIN_VALID(cy_time.min)
    /\ CY_RTC_IS_HOUR_VALID(cy_time.hour)
    /\ CY_RTC_IS_DOW_VALID(cy_time.dayOfWeek)
    /\ CY_RTC_IS_MONTH_VALID(cy_time.month)
    /\ CY_RTC_IS_YEAR_SHORT_VALID(cy_time.year)
    /\ cy_time.hrFormat = CY_RTC_24_HOURS

\* lines 94-101: the conditions evaluated before rtc_read_convert_year is called
InitFieldsValid(cy_time, reg) ==
    /\ CY_RTC_IS_SEC_VALID(cy_time.sec)
    /\ CY_RTC_IS_MIN_VALID(cy_time.min)
    /\ CY_RTC_IS_HOUR_VALID(cy_time.hour)
    /\ CY_RTC_IS_DOW_VALID(cy_time.dayOfWeek)
    /\ CY_RTC_IS_MONTH_VALID(cy_time.month)
    /\ CY_RTC_IS_YEAR_SHORT_VALID(cy_time.year)
    /\ cy_time.hrFormat = CY_RTC_24_HOURS
    /\ MagicBits(reg) = BR_CORR_MAGIC

\* line 102: the smallest decoded year accepted (1970)
MinYear == 70

\* a variant that accepts only years after 1970
InitAcceptsAfter(cy_time, reg) ==
    /\ InitFieldsValid(cy_time, reg)
    /\ ReadConvertYear(reg, cy_time.year).ret > MinYear

\* lines 94-102: the whole condition; the decode is evaluated last, and only
\* when everything before it holds
InitAccepts(cy_time, reg) ==
    /\ InitFieldsValid(cy_time, reg)
    /\ ReadConvertYear(reg, cy_time.year).ret >= MinYear

\* a variant that validates the hardware on every call
rtc_init_call_always ==
    /\ pc = "idle"
    /\ op' = "init"
    /\ pc' = "init_check"
    /\ UNCHANGED <<enabled, hw, init_val_year, crit, locals, ret, fatal,
                   lastSet, ticks, codec>>

\* line 89, entry: nothing happens when already enabled
rtc_init_call ==
    /\ pc = "idle"
    /\ op' = "init"
    /\ pc' = IF enabled # 0 THEN "ret" ELSE "init_check"
    /\ UNCHANGED <<enabled, hw, init_val_year, crit, locals, ret, fatal,
                   lastSet, ticks, codec>>

\* lines 93-104: read the record, validate it, accept it or go on to reinitialize
rtc_init_check ==
    /\ pc = "init_check"
    /\ LET cy_time == rtc
           decoded == ReadConvertYear(BREG, cy_time.year)
       IN  /\ BREG' = IF InitFieldsValid(cy_time, BREG) THEN decoded.reg ELSE BREG
           /\ IF InitAccepts(cy_time, BREG)
              THEN enabled' = 1 /\ pc' = "ret"
              ELSE enabled' = enabled /\ pc' = "init_encode"
    /\ UNCHANGED <<rtc, busy, init_val_year, op, crit, locals, ret, fatal,
                   lastSet, ticks, codec>>

\* line 108: init_val.year = rtc_write_convert_year(70)
rtc_init_encode ==
    /\ pc = "init_encode"
    /\ BREG' = WriteConvertYear(MinYear).reg
    /\ init_val_year' = WriteConvertYear(MinYear).ret
    /\ lastSet' = [by |-> "pending", t |-> EpochTS]
    /\ pc' = "init_poll1"
    /\ UNCHANGED <<enabled, rtc, busy, op, crit, locals, ret, fatal, ticks, codec>>

\* line 109: busy-poll
rtc_init_poll1 ==
    /\ pc = "init_poll1"
    /\ ~busy
    /\ pc' = "init_program"
    /\ UNCHANGED <<enabled, hw, init_val_year, op, crit, locals, ret, fatal,
                   lastSet, ticks, codec>>

\* lines 76-86: the record Cy_RTC_Init is given
InitVal(year) == Rec(CY_RTC_24_HOURS, 0, 0, 0, CY_RTC_SATURDAY, 1, 1, year)

\* a variant that ignores the status
InitStatusIgnored(st) == TRUE

\* line 111: the test of Cy_RTC_Init's status
InitStatusOk(st) == st = CY_RTC_SUCCESS

\* lines 110-115: program the peripheral; enabled on success, error() otherwise
rtc_init_program ==
    /\ pc = "init_program"
    /\ \E st \in DriverStatus :
         /\ status' = st
         \* line 110: the driver programs the record only when it accepts
         /\ rtc' = IF st = CY_RTC_SUCCESS THEN InitVal(init_val_year) ELSE rtc
         /\ busy' = (st = CY_RTC_SUCCESS \/ busy)
         /\ lastSet' = IF lastSet.by = "pending" /\ st = CY_RTC_SUCCESS
                       THEN [by |-> "init", t |-> EpochTS] ELSE NoSet
         \* lines 111-115
         /\ IF InitStatusOk(st)
            THEN enabled' = 1 /\ pc' = "init_poll2" /\ fatal' = fatal
            ELSE enabled' = enabled /\ pc' = "halted" /\ fatal' = st
    /\ UNCHANGED <<BREG, init_val_year, op, crit, arg, gmt, ret, ticks, codec>>

\* line 117: busy-poll, then return
rtc_init_poll2 ==
    /\ pc = "init_poll2"
    /\ ~busy
    /\ pc' = "ret"
    /\ UNCHANGED <<enabled, hw, init_val_year, op, crit, locals, ret, fatal,
                   lastSet, ticks, codec>>

(***************************************************************************)
(* rtc_free, rtc_isenabled                                                 *)
(***************************************************************************)
\* a variant that marks the peripheral disabled
rtc_free_disables ==
    /\ pc = "idle"
    /\ op' = "free" /\ pc' = "ret"
    /\ enabled' = 0
    /\ UNCHANGED <<hw, init_val_year, crit, locals, ret, fatal, lastSet, ticks,
                   codec>>

\* lines 122-125
rtc_free ==
    /\ pc = "idle"
    /\ op' = "free" /\ pc' = "ret"
    /\ UNCHANGED <<enabled, hw, init_val_year, crit, locals, ret, fatal,
                   lastSet, ticks, codec>>

rtc_isenabled ==
    /\ pc = "idle"
    /\ op' = "isenabled" /\ pc' = "ret"
    /\ ret' = [v |-> enabled, t |-> NoTime]
    /\ UNCHANGED <<enabled, hw, init_val_year, crit, locals, fatal, lastSet,
                   ticks, codec>>

(***************************************************************************)
(* rtc_read                                                                *)
(***************************************************************************)
rtc_read_call ==
    /\ pc = "idle"
    /\ op' = "read" /\ pc' = "read_poll"
    /\ UNCHANGED <<enabled, hw, init_val_year, crit, locals, ret, fatal,
                   lastSet, ticks, codec>>

\* a variant that does not wait for the peripheral
rtc_read_poll_nowait ==
    /\ pc = "read_poll"
    /\ pc' = "read_enter"
    /\ UNCHANGED <<enabled, hw, init_val_year, op, crit, locals, ret, fatal,
                   lastSet, ticks, codec>>

\* line 141: busy-poll
rtc_read_poll ==
    /\ pc = "read_poll"
    /\ ~busy
    /\ pc' = "read_enter"
    /\ UNCHANGED <<enabled, hw, init_val_year, op, crit, locals, ret, fatal,
                   lastSet, ticks, codec>>

\* line 143
rtc_read_enter ==
    /\ pc = "read_enter"
    /\ crit' = TRUE
    /\ pc' = "read_access"
    /\ UNCHANGED <<enabled, hw, init_val_year, op, locals, ret, fatal, lastSet,
                   ticks, codec>>

\* lines 145-151: the broken-down time built from the record and the decoded year
ReadGmt(cy_time, year) ==
    [tm_sec |-> cy_time.sec, tm_min |-> cy_time.min, tm_hour |-> cy_time.hour,
     tm_mday |-> cy_time.date, tm_mon |-> cy_time.month - 1, tm_year |-> year]

\* lines 144-151: read the record, decode the year (which rewrites the register)
rtc_read_access ==
    /\ pc = "read_access"
    /\ LET cy_time == rtc
           decoded == ReadConvertYear(BREG, cy_time.year)
       IN  /\ gmt' = ReadGmt(cy_time, decoded.ret)
           /\ BREG' = decoded.reg
    /\ pc' = "read_exit"
    /\ UNCHANGED <<enabled, rtc, busy, init_val_year, op, crit, arg, status,
                   ret, fatal, lastSet, ticks, codec>>

\* line 152
rtc_read_exit ==
    /\ pc = "read_exit"
    /\ crit' = FALSE
    /\ pc' = "read_maketime"
    /\ UNCHANGED <<enabled, hw, init_val_year, op, locals, ret, fatal, lastSet,
                   ticks, codec>>

\* a variant that returns the failure of the conversion as the time
ReadResultsFailureCode(tm) ==
    {IF r.ok THEN r.t ELSE TS(-1, LastSecondOfDay) : r \in RtcMaketime(tm)}

\* lines 136, 154-155: timestamp = 0 unless _rtc_maketime succeeds
ReadResults(tm) ==
    {IF r.ok THEN r.t ELSE EpochTS : r \in RtcMaketime(tm)}

rtc_read_maketime ==
    /\ pc = "read_maketime"
    /\ \E timestamp \in ReadResults(gmt) : ret' = [v |-> 0, t |-> timestamp]
    /\ pc' = "ret"
    /\ UNCHANGED <<enabled, hw, init_val_year, op, crit, locals, fatal, lastSet,
                   ticks, codec>>

(***************************************************************************)
(* rtc_write                                                               *)
(***************************************************************************)
\* a variant that goes on whatever the conversion reports
rtc_write_call_unchecked ==
    /\ pc = "idle"
    /\ \E t \in WriteTimes :
         /\ arg' = t
         /\ gmt' = RtcLocaltime(t).tm
         /\ pc' = "write_poll"
    /\ op' = "write"
    /\ UNCHANGED <<enabled, hw, init_val_year, crit, status, ret, fatal,
                   lastSet, ticks, codec>>

\* line 163: the conversion decides whether anything is done at all
rtc_write_call ==
    /\ pc = "idle"
    /\ \E t \in WriteTimes :
         LET lt == RtcLocaltime(t)
         IN  /\ arg' = t
             /\ IF lt.ok
                THEN gmt' = lt.tm /\ pc' = "write_poll"
                ELSE gmt' = gmt /\ pc' = "ret"
    /\ op' = "write"
    /\ UNCHANGED <<enabled, hw, init_val_year, crit, status, ret, fatal,
                   lastSet, ticks, codec>>

\* line 167: busy-poll
rtc_write_poll ==
    /\ pc = "write_poll"
    /\ ~busy
    /\ pc' = "write_enter"
    /\ UNCHANGED <<enabled, hw, init_val_year, op, crit, locals, ret, fatal,
                   lastSet, ticks, codec>>

\* line 169
rtc_write_enter ==
    /\ pc = "write_enter"
    /\ crit' = TRUE
    /\ pc' = "write_program"
    /\ UNCHANGED <<enabled, hw, init_val_year, op, locals, ret, fatal, lastSet,
                   ticks, codec>>

\* lines 171-176: the record requested of Cy_RTC_SetDateAndTimeDirect
WriteRecord(tm, year) ==
    SetDateAndTimeDirect(tm.tm_sec, tm.tm_min, tm.tm_hour, tm.tm_mday,
                         tm.tm_mon + 1, year)

\* lines 170-176: encode the year (which rewrites the register), program the record
rtc_write_program ==
    /\ pc = "write_program"
    /\ LET enc == WriteConvertYear(gmt.tm_year)
       IN  /\ BREG' = enc.reg
           /\ \E st \in DriverStatus :
                /\ status' = st
                /\ IF st = CY_RTC_SUCCESS
                   THEN /\ rtc' = WriteRecord(gmt, enc.ret)
                        /\ busy' = TRUE
                        /\ lastSet' = [by |-> "write", t |-> arg]
                   ELSE /\ UNCHANGED <<rtc, busy>>
                        /\ lastSet' = NoSet
    /\ pc' = "write_exit"
    /\ UNCHANGED <<enabled, init_val_year, op, crit, arg, gmt, ret, fatal, ticks, codec>>

\* a variant that goes on without leaving the critical section
rtc_write_exit_kept ==
    /\ pc = "write_exit"
    /\ pc' = "write_status"
    /\ UNCHANGED <<enabled, hw, init_val_year, op, crit, locals, ret, fatal,
                   lastSet, ticks, codec>>

\* line 177
rtc_write_exit ==
    /\ pc = "write_exit"
    /\ crit' = FALSE
    /\ pc' = "write_status"
    /\ UNCHANGED <<enabled, hw, init_val_year, op, locals, ret, fatal, lastSet,
                   ticks, codec>>

\* lines 178-180: error() on any status but success
rtc_write_status ==
    /\ pc = "write_status"
    /\ IF status # CY_RTC_SUCCESS
       THEN pc' = "halted" /\ fatal' = status
       ELSE pc' = "ret" /\ fatal' = fatal
    /\ UNCHANGED <<enabled, hw, init_val_year, op, crit, locals, ret, lastSet,
                   ticks, codec>>

(***************************************************************************)
(* The environment: the running clock, the end of a synchronisation, a     *)
(* power malfunction of the backup domain, and a restart of the firmware.  *)
(***************************************************************************)
Tick ==
    /\ ticks < MaxTicks
    /\ RecordCounts(rtc)
    /\ rtc' = NextSecond(rtc)
    /\ ticks' = ticks + 1
    /\ lastSet' = NoSet
    /\ UNCHANGED <<enabled, BREG, busy, init_val_year, op, pc, crit, locals,
                   ret, fatal, codec>>

SyncDone ==
    /\ busy
    /\ busy' = FALSE
    /\ UNCHANGED <<enabled, BREG, rtc, init_val_year, op, pc, crit, locals, ret,
                   fatal, lastSet, ticks, codec>>

Glitch ==
    /\ \E g \in GlitchRegs : BREG # g /\ BREG' = g
    /\ lastSet' = NoSet
    /\ UNCHANGED <<enabled, rtc, busy, init_val_year, op, pc, crit, locals, ret,
                   fatal, ticks, codec>>

\* the firmware starts again: statics are initialised, the backup domain keeps
\* the register and the clock
Restart ==
    /\ pc # "idle" \/ enabled # 0
    /\ enabled' = 0 /\ init_val_year' = 0
    /\ op' = "none" /\ pc' = "idle" /\ crit' = FALSE
    /\ ClearLocals /\ ret' = NoRet /\ fatal' = NoStatus
    /\ lastSet' = IF lastSet.by = "pending" THEN NoSet ELSE lastSet
    /\ UNCHANGED <<hw, ticks, codec>>

\* a step of the program
Api ==
    \/ rtc_init_call \/ rtc_init_check \/ rtc_init_encode \/ rtc_init_poll1
    \/ rtc_init_program \/ rtc_init_poll2
    \/ rtc_free \/ rtc_isenabled
    \/ rtc_read_call \/ rtc_read_poll \/ rtc_read_enter \/ rtc_read_access
    \/ rtc_read_exit \/ rtc_read_maketime
    \/ rtc_write_call \/ rtc_write_poll \/ rtc_write_enter \/ rtc_write_program
    \/ rtc_write_exit \/ rtc_write_status
    \/ Return

Next == Api \/ Tick \/ SyncDone \/ Glitch \/ Restart

Spec == Init /\ [][Next]_vars

\* The same program where the caller keeps executing (a step of the program
\* that can be taken is taken) and a synchronisation of the peripheral that
\* was started comes to its end.
SpecFair == Spec /\ WF_vars(Api) /\ WF_vars(SyncDone)

(***************************************************************************)
(* The year codec on its own: rtc_read_convert_year and                    *)
(* rtc_write_convert_year called directly on the backup register, in any   *)
(* order, with the two-digit years the hardware can report and the years   *)
(* (since 1900) the calendar can hand over.  `codec` records the call: its *)
(* argument and result, and, for a run of Decode calls, the century stored *)
(* before the run (base), the length of the run (len), whether the years   *)
(* of the run never decreased                                              *)
(* (mono), whether its first year was at least the stored last year        *)
(* (nowrap), and the year of the Encode call right before (after).         *)
(***************************************************************************)
\* two-digit years Decode is called with
ShortYearSamples == {0, 1, 50, 69, 70, 98, 99}
\* years since 1900 Encode is called with: 1970 .. 2106
LongYears == 70..206

\* everything but the register and the call record
notCodec == <<enabled, rtc, busy, init_val_year, op, pc, crit, arg, gmt, status,
              ret, fatal, lastSet, ticks>>

CodecDecode ==
    /\ UNCHANGED notCodec
    /\ \E y \in ShortYearSamples \cup (IF codec.op = "encode" THEN {codec.ret} ELSE {}) :
      LET r == ReadConvertYear(BREG, y)
          first == codec.op # "decode"
      IN  /\ BREG' = r.reg
          /\ codec' = [op |-> "decode", year |-> y, ret |-> r.ret,
                       after |-> IF codec.op = "encode" THEN codec.year ELSE -1,
                       base |-> IF first THEN CenturyBits(BREG) ELSE codec.base,
                       len |-> IF codec.len < MaxRun THEN codec.len + 1
                               ELSE MaxRun,
                       mono |-> IF first THEN TRUE
                                ELSE codec.mono /\ y >= codec.year,
                       nowrap |-> IF first THEN y >= LastYearBits(BREG)
                                  ELSE codec.nowrap]

CodecEncode ==
    /\ UNCHANGED notCodec
    /\ \E long_year \in LongYears :
      LET r == WriteConvertYear(long_year)
      IN  /\ BREG' = r.reg
          /\ codec' = [NoCodec EXCEPT !.op = "encode", !.year = long_year,
                                      !.ret = r.ret]

\* a new run of Decode calls starts here
CodecMark ==
    /\ codec.op = "decode"
    /\ codec' = NoCodec
    /\ BREG' = BREG
    /\ UNCHANGED notCodec

InitCodec ==
    /\ BREG \in InitRegs \cup GlitchRegs
    /\ rtc = InitVal(MinYear)
    /\ busy = FALSE
    /\ enabled = 0 /\ init_val_year = 0 /\ op = "none" /\ pc = "idle"
    /\ crit = FALSE /\ arg = NoTime /\ gmt = NoTm /\ status = NoStatus
    /\ ret = NoRet /\ fatal = NoStatus /\ lastSet = NoSet /\ ticks = 0
    /\ codec = NoCodec

NextCodec == CodecDecode \/ CodecEncode \/ CodecMark

SpecCodec == InitCodec /\ [][NextCodec]_vars

(***************************************************************************)
(* Properties of the adapter (specification Spec).                         *)
(***************************************************************************)
\* 2069-12-31, the last day of the range of C1, in days since 1970-01-01:
\* a hundred years with 25 leap days, less one day
LastDay2069 == (100 * 365 + 25) - 1

\* C1: a ReadTime that returns while the last accepted WriteTime(t) is still
\* undisturbed (no clock tick, no corruption, no other programming since the
\* driver accepted it) returns exactly t, for every t from 1970-01-01T00:00:00Z
\* to 2069-12-31T23:59:59Z, whatever the register and the record held before.
C1_WriteThenReadReturnsT ==
    (/\ pc = "ret" /\ op = "read"
     /\ lastSet.by = "write"
     /\ lastSet.t.d >= 0 /\ lastSet.t.d <= LastDay2069)
        => ret.t = lastSet.t

C1_Witness ==
    /\ pc = "ret" /\ op = "read"
    /\ lastSet = [by |-> "write", t |-> TS(LastDay2069, LastSecondOfDay)]
    /\ ret.t = TS(LastDay2069, LastSecondOfDay)

\* C2: a WriteTime whose timestamp the calendar conversion reports as
\* unrepresentable goes from the call straight to its return: the call step
\* leaves the record, the register, the busy status and the Enabled flag as they
\* were, it never polls or holds the critical section, and no fatal error is
\* raised.
C2_UnrepresentableWriteChangesNothing ==
    [][(op' = "write" /\ ~RtcLocaltime(arg').ok)
         => /\ pc' = "ret" /\ crit' = FALSE /\ fatal' = NoStatus
            /\ (pc = "idle"
                  => UNCHANGED <<rtc, BREG, busy, enabled, init_val_year, crit,
                                 fatal>>)]_vars

C2_Witness ==
    /\ pc = "ret" /\ op = "write"
    /\ arg = TS(Time32Days, Time32Secs)
    /\ enabled = 1
    /\ rtc = RecordOf(TS(LastDay2069, LastSecondOfDay))

\* the record of 1970-01-01 00:00:00 as rtc_init programs it
EpochRecord == Rec(CY_RTC_24_HOURS, 0, 0, 0, CY_RTC_SATURDAY, 1, 1, 70)

\* the magic tag is bad, or the two-digit year decodes to a year before 1970
C3_Regime ==
    \/ MagicBits(BREG) # BR_CORR_MAGIC
    \/ ReadConvertYear(BREG, rtc.year).ret < 70

\* C3: Initialize while not enabled, finding a bad magic tag or a two-digit year
\* that decodes below 70, takes the reinitialization path: it persists century 0,
\* last year 70 and the magic tag, programs the record 1970-01-01 00:00:00 when
\* the driver accepts, and whenever it returns Enabled is true; a ReadTime that
\* returns while that programming is undisturbed returns 0.
C3_ReinitProgramsEpoch ==
    /\ [][(pc = "init_check" /\ pc' \notin {"init_check", "idle"} /\ C3_Regime)
            => (pc' = "init_encode" /\ rtc' = rtc)]_vars
    /\ [][(pc = "init_encode" /\ pc' = "init_poll1")
            => (BREG' = BR_CORR_MAGIC + 70 /\ init_val_year' = 70)]_vars
    /\ [][(pc = "init_program" /\ pc' = "init_poll2")
            => (rtc' = EpochRecord /\ enabled' = 1 /\ BREG' = BREG)]_vars
    /\ []((op = "init" /\ pc \in {"init_poll2", "ret"}) => enabled = 1)
    /\ []((pc = "ret" /\ op = "read" /\ lastSet.by = "init")
            => ret.t = EpochTS)

C3_Witness ==
    /\ pc = "ret" /\ op = "read"
    /\ lastSet.by = "init"
    /\ ret.t = EpochTS
    /\ rtc = EpochRecord /\ BREG = BR_CORR_MAGIC + 70 /\ enabled = 1

\* the preconditions C4 names: valid magic tag, 24-hour format, decoded year of
\* at least 1970
C4_Named ==
    /\ MagicBits(BREG) = BR_CORR_MAGIC
    /\ rtc.hrFormat = CY_RTC_24_HOURS
    /\ ReadConvertYear(BREG, rtc.year).ret >= 70

\* the fields rtc_init range-checks besides
C4_FieldsInRange ==
    /\ rtc.sec <= 59 /\ rtc.min <= 59 /\ rtc.hour <= 23
    /\ rtc.dayOfWeek >= 1 /\ rtc.dayOfWeek <= 7
    /\ rtc.month >= 1 /\ rtc.month <= 12
    /\ rtc.year <= 99

\* C4 as stated: under the named preconditions Initialize accepts the hardware
\* at once, Enabled becomes true, and neither the record nor the persisted
\* register changes.
C4_AsStated ==
    [][(pc = "init_check" /\ pc' \notin {"init_check", "idle"} /\ C4_Named)
         => (pc' = "ret" /\ enabled' = 1 /\ rtc' = rtc /\ BREG' = BREG)]_vars

\* C4 (amended): with, besides, second, minute, hour, day of week, month and
\* two-digit year in range, Initialize accepts the hardware at once, does not
\* program the record and Enabled becomes true; the persisted register is
\* rewritten by the decode: the magic tag, the hardware's two-digit year as last
\* year, and the century, one more than stored when that year is below the
\* stored last year.
C4_AcceptsWithoutProgramming ==
    [][(pc = "init_check" /\ pc' \notin {"init_check", "idle"}
          /\ C4_Named /\ C4_FieldsInRange)
         => /\ pc' = "ret" /\ enabled' = 1 /\ rtc' = rtc /\ busy' = busy
            /\ MagicBits(BREG') = BR_CORR_MAGIC
            /\ LastYearBits(BREG') = rtc.year
            /\ CenturyBits(BREG') =
                 (CenturyBits(BREG)
                    + IF LastYearBits(BREG) > rtc.year THEN 1 ELSE 0) % 4]_vars

\* Initialize has accepted a clock standing at 1970 exactly, and returned
C4_Witness ==
    /\ pc = "ret" /\ op = "init"
    /\ enabled = 1 /\ init_val_year = 0 /\ ticks = 0
    /\ rtc = RecordOf(EpochTS) /\ BREG = BR_CORR_MAGIC + 70

\* C5: Initialize called while Enabled is true returns at once: it does not read
\* or validate the hardware, does not poll, and leaves the record, the
\* register, the busy status and the Enabled flag as they are, also when the
\* register's tag has been destroyed in the meantime.
C5_InitIdempotent ==
    [][(pc = "idle" /\ op' = "init" /\ enabled # 0)
         => /\ pc' = "ret"
            /\ UNCHANGED <<rtc, BREG, busy, enabled, init_val_year, crit,
                           fatal>>]_vars

\* Initialize has returned with the register's tag destroyed, in a firmware run
\* that reinitialized earlier (init_val.year is 70) and wrote the clock since:
\* the call found Enabled true
C5_Witness ==
    /\ pc = "ret" /\ op = "init"
    /\ enabled = 1 /\ init_val_year = 70 /\ ticks = 0
    /\ rtc = RecordOf(TS(LastDay2069, LastSecondOfDay))
    /\ MagicBits(BREG) # BR_CORR_MAGIC

\* C6: no step of Initialize, Shutdown, IsEnabled, ReadTime or WriteTime takes
\* the Enabled flag from true to false; the steps of ReadTime, WriteTime,
\* Shutdown and IsEnabled do not change it at all, and Shutdown changes nothing
\* of the driver or the hardware.
C6_EnabledNeverCleared ==
    [][Api => /\ (enabled # 0 => enabled' # 0)
              /\ (op' \in {"read", "write", "free", "isenabled"}
                    => enabled' = enabled)
              /\ (op' = "free"
                    => UNCHANGED <<enabled, BREG, rtc, busy, init_val_year,
                                   crit, fatal>>)]_vars

C6_Witness ==
    /\ pc = "ret" /\ op = "free"
    /\ enabled = 1

(***************************************************************************)
(* Properties of the year codec (specification SpecCodec).                 *)
(***************************************************************************)
\* C7 as stated: a Decode of a two-digit year below the persisted last year
\* increases the persisted century by exactly one and returns a year of that
\* century, and a following Decode of the same or a larger two-digit year
\* returns a year of that century without a further increment, for every
\* starting century 0 .. 3.
C7_WrapIncrementsOnce ==
    [][(/\ codec'.op = "decode"
        /\ <<BREG, codec>>' # <<BREG, codec>>
        /\ codec'.year < LastYearBits(BREG))
         => LET century == CenturyBits(BREG) + 1
            IN  /\ CenturyBits(BREG') = century
                /\ codec'.ret = century * 100 + codec'.year
                /\ \A y \in ShortYearSamples :
                     y >= codec'.year
                       => LET next == ReadConvertYear(BREG', y)
                          IN  /\ next.ret = century * 100 + y
                              /\ CenturyBits(next.reg) = century]_vars

\* C8 as stated: in a run of Decode calls whose two-digit years never decrease,
\* the persisted century stays the one stored before the run and every Decode
\* returns 100 * that century + its two-digit year.
C8_AsStated ==
    (codec.op = "decode" /\ codec.mono)
        => /\ CenturyBits(BREG) = codec.base
           /\ codec.ret = 100 * codec.base + codec.year

\* C8 (amended): in a run of Decode calls whose two-digit years never decrease
\* and whose first year is not below the last year persisted before the run,
\* the persisted century stays the one stored before the run and every Decode
\* returns 100 * that century + its two-digit year.
C8_MonotoneRunKeepsCentury ==
    (codec.op = "decode" /\ codec.mono /\ codec.nowrap)
        => /\ CenturyBits(BREG) = codec.base
           /\ codec.ret = 100 * codec.base + codec.year

C8_Witness ==
    /\ codec.op = "decode" /\ codec.mono /\ codec.nowrap
    /\ codec.len >= 2
    /\ codec.base = 1 /\ codec.year = 99 /\ codec.ret = 199

\* C9: for every year y of 70 .. 169 (1970 .. 2069), Encode(y) returns y mod 100
\* and persists century y div 100 (and y mod 100 as last year); a Decode of the
\* returned two-digit year right after gives y back, and Encode of that result
\* returns the same two-digit year.
C9_EncodeDecodeInverse ==
    /\ (codec.op = "encode" /\ codec.year >= 70 /\ codec.year <= 169)
         => /\ codec.ret = codec.year % 100
            /\ CenturyBits(BREG) = codec.year \div 100
            /\ LastYearBits(BREG) = codec.ret
            /\ MagicBits(BREG) = BR_CORR_MAGIC
    /\ (/\ codec.op = "decode" /\ codec.after >= 70 /\ codec.after <= 169
        /\ codec.year = codec.after % 100)
         => /\ codec.ret = codec.after
            /\ WriteConvertYear(codec.ret).ret = codec.year

C9_Witness ==
    /\ codec.op = "decode"
    /\ codec.after = 169 /\ codec.year = 69 /\ codec.ret = 169

(***************************************************************************)
(* Error handling (specification Spec).                                    *)
(***************************************************************************)
\* C10: when the driver rejects the programming request of rtc_init's
\* reinitialization or of rtc_write, error() is raised with exactly the status
\* the driver returned, and the caller stays halted (no step of the program, no
\* second request) until the firmware restarts; rtc_init sets Enabled only when
\* the driver accepted, so whenever rtc_init returns, Enabled is true.
C10_RejectionIsFatal ==
    /\ [][(pc = "init_program" /\ pc' \notin {"init_program", "idle"})
            => IF status' = CY_RTC_SUCCESS
               THEN pc' = "init_poll2" /\ enabled' = 1 /\ fatal' = NoStatus
               ELSE /\ pc' = "halted" /\ fatal' = status'
                    /\ enabled' = enabled /\ rtc' = rtc]_vars
    /\ [][(pc = "write_status" /\ pc' \notin {"write_status", "idle"})
            => IF status = CY_RTC_SUCCESS
               THEN pc' = "ret" /\ fatal' = NoStatus
               ELSE pc' = "halted" /\ fatal' = status]_vars
    /\ [][pc = "halted"
            => \/ pc' = "halted" /\ UNCHANGED <<enabled, fatal, status, op, crit>>
               \/ pc' = "idle" /\ enabled' = 0]_vars
    /\ [](pc = "halted"
            => /\ op \in {"init", "write"}
               /\ fatal \in DriverStatus \ {CY_RTC_SUCCESS}
               /\ fatal = status)
    /\ []((op = "write" /\ status \notin {NoStatus, CY_RTC_SUCCESS})
            => pc \in {"write_exit", "write_status", "halted"})
    /\ []((op = "init" /\ status \notin {NoStatus, CY_RTC_SUCCESS})
            => pc = "halted" /\ enabled = 0)
    /\ []((op = "init" /\ pc = "ret") => enabled = 1)

C10_Witness ==
    /\ pc = "halted" /\ op = "init"
    /\ fatal = CY_RTC_INVALID_STATE
    /\ enabled = 0

(***************************************************************************)
(* The busy-wait of rtc_read and rtc_write (specification SpecFair).       *)
(***************************************************************************)
WaitingPcs == {"read_poll", "write_poll"}

\* C11: ReadTime and a representable WriteTime wait for the peripheral without
\* a timeout. While the peripheral is busy the waiting call takes no step at
\* all, so it neither returns nor touches the record or the register; when the
\* caller keeps running and the synchronisation ends, the call ends, by
\* returning or by the fatal error (or the firmware is restarted).
C11_BusyWaitEnds ==
    /\ [][(pc \in WaitingPcs /\ busy) => ~Api]_vars
    /\ [][(pc \in WaitingPcs /\ pc' # pc /\ pc' # "idle")
             => (~busy /\ hw' = hw /\ ret' = ret /\ fatal' = fatal)]_vars
    /\ (pc \in WaitingPcs) ~> (pc \in {"ret", "halted", "idle"})

\* WriteTime of a representable time is waiting for a busy peripheral
C11_Witness ==
    /\ pc = "write_poll" /\ op = "write"
    /\ busy
    /\ Representable(arg)

(***************************************************************************)
(* Properties of rtc_read, rtc_init and rtc_write (specification Spec).    *)
(***************************************************************************)
\* the conversion of the broken-down time tm cannot succeed
MaketimeFails(tm) == \A r \in RtcMaketime(tm) : ~r.ok

\* C12: ReadTime raises no error: it never ends in the fatal error, and when
\* the calendar conversion of what it read fails (for instance a decoded year
\* outside the range) it returns 0, the value a read of the epoch returns.
C12_ReadFailureReturnsEpoch ==
    /\ [](op = "read" => (pc # "halted" /\ fatal = NoStatus))
    /\ [][(pc = "read_maketime" /\ pc' # pc /\ pc' # "idle")
             => /\ pc' = "ret"
                /\ ret'.v = 0
                /\ (MaketimeFails(gmt) => ret'.t = EpochTS)]_vars

\* ReadTime returns 0 for a record whose decoded year (century 3) is beyond 2106
C12_Witness ==
    /\ pc = "ret" /\ op = "read"
    /\ gmt.tm_year > EdgeYear
    /\ MaketimeFails(gmt)
    /\ ret = [v |-> 0, t |-> EpochTS]

\* every field of the record is in range, the day of the month included
C13_EveryFieldInRange ==
    /\ C4_FieldsInRange
    /\ rtc.date >= 1 /\ rtc.date <= 31

\* C13: Initialize accepts the hardware without reprogramming only if every
\* field of the record is in range (second, minute, hour, day of month, day of
\* week, month, two-digit year), the 24-hour format is selected, the magic tag
\* is intact and the decoded year is at least 1970; a record with a field out
\* of range is reinitialized.
C13_AcceptsOnlyValidRecord ==
    [][(pc = "init_check" /\ pc' \notin {"init_check", "idle"})
         => IF C13_EveryFieldInRange /\ C4_Named
            THEN pc' = "ret" /\ enabled' = 1 /\ rtc' = rtc
            ELSE pc' = "init_encode" /\ enabled' = 0]_vars

\* the steps that read or write the record or the persisted register:
\* lines 93-102, 108, 110 of rtc_init, 144-151 of rtc_read, 170-176 of rtc_write
AccessPcs ==
    {"init_check", "init_encode", "init_program", "read_access", "write_program"}

\* C14: in every operation (Initialize, ReadTime, WriteTime) each read or write
\* of the record and of the persisted century register happens while the
\* critical section is held, and every step of the program that changes one of
\* them is taken inside it.
C14_AccessInCriticalSection ==
    /\ [](pc \in AccessPcs => crit)
    /\ [][(Api /\ (BREG' # BREG \/ rtc' # rtc)) => (crit /\ crit')]_vars

\* the order of the steps of rtc_read (lines 141-155) and of rtc_write (lines
\* 167-180): the positions that may follow a position
StepAfter(p) ==
    CASE p = "read_poll" -> {"read_enter"}
      [] p = "read_enter" -> {"read_access"}
      [] p = "read_access" -> {"read_exit"}
      [] p = "read_exit" -> {"read_maketime"}
      [] p = "read_maketime" -> {"ret"}
      [] p = "write_poll" -> {"write_enter"}
      [] p = "write_enter" -> {"write_program"}
      [] p = "write_program" -> {"write_exit"}
      [] p = "write_exit" -> {"write_status"}
      [] p = "write_status" -> {"ret", "halted"}
      [] OTHER -> {}

\* C15: in ReadTime and in a representable WriteTime the order is: wait for the
\* peripheral, enter the critical section, access the hardware, leave the
\* critical section. The critical section is not held while waiting, the
\* hardware is accessed only in the step between enter and exit, and the
\* section has been left when the operation returns or raises the fatal error.
C15_PollEnterAccessExit ==
    /\ [][(op \in {"read", "write"} /\ pc \notin {"idle", "ret", "halted"}
            /\ pc' # pc /\ pc' # "idle") => pc' \in StepAfter(pc)]_vars
    /\ [](pc \in WaitingPcs => ~crit)
    /\ [](crit <=> pc \in {"read_access", "read_exit", "write_program", "write_exit"})
    /\ [][(op \in {"read", "write"} /\ Api /\ (BREG' # BREG \/ rtc' # rtc))
             => (pc \in {"read_access", "write_program"} /\ crit /\ crit')]_vars
    /\ [](pc \in {"ret", "halted"} => ~crit)

\* WriteTime has raised the fatal error, the critical section left before
C15_Witness ==
    /\ pc = "halted" /\ op = "write"
    /\ fatal = CY_RTC_BAD_PARAM
    /\ ~crit

\* the magic tag of the persisted register matches
TagIntact(reg) == MagicBits(reg) = BR_CORR_MAGIC

\* the step about to be taken calls rtc_read_convert_year: line 102 (reached
\* only when the conditions before it hold) and line 151
DerivesYear ==
    \/ pc = "init_check" /\ InitFieldsValid(rtc, BREG)
    \/ pc = "read_access"

\* C16: a register whose magic tag does not match is never trusted: no
\* operation derives a year from its century and last-year fields, ReadTime
\* and WriteTime leave the mismatch for the next Initialize to find, and
\* Initialize reinitializes when it finds it.
C16_BadTagNeverTrusted ==
    /\ [][(Api /\ DerivesYear) => TagIntact(BREG)]_vars
    /\ [][(Api /\ op \in {"read", "write"} /\ ~TagIntact(BREG)) => ~TagIntact(BREG')]_vars
    /\ [][(pc = "init_check" /\ pc' \notin {"init_check", "idle"} /\ ~TagIntact(BREG))
             => pc' = "init_encode"]_vars

\* the years since 1900 of the time WriteTime was called with
WrittenYear == RtcLocaltime(arg).tm.tm_year

\* C17: over the whole range 1970-01-01T00:00:00Z .. 2106-02-07T06:28:15Z: an
\* accepted WriteTime(t) leaves the register tagged with century
\* (year - 1900) div 100 and last year (year - 1900) mod 100, the record
\* programmed with that two-digit year, and a ReadTime that returns while the
\* write is undisturbed returns t.
C17_WholeRangeRoundTrip ==
    /\ (/\ pc \in {"write_exit", "write_status"}
         /\ status = CY_RTC_SUCCESS /\ lastSet = [by |-> "write", t |-> arg])
            => /\ WrittenYear >= MinYear /\ WrittenYear <= EdgeYear
               /\ TagIntact(BREG)
               /\ CenturyBits(BREG) = WrittenYear \div 100
               /\ LastYearBits(BREG) = WrittenYear % 100
               /\ rtc.year = WrittenYear % 100
    /\ (pc = "ret" /\ op = "read" /\ lastSet.by = "write")
            => (Representable(lastSet.t) /\ ret = [v |-> 0, t |-> lastSet.t])

\* ReadTime returns 2100-01-01T00:00:00Z, written into century 2, year 00
C17_Witness ==
    /\ pc = "ret" /\ op = "read"
    /\ lastSet = [by |-> "write", t |-> TS(47482, 0)]
    /\ ret.t = TS(47482, 0)
    /\ CenturyBits(BREG) = 2 /\ rtc.year = 0

(***************************************************************************)
(* The register after a call of the codec (specification SpecCodec).       *)
(***************************************************************************)
\* the year since 1900 the register stands for
RegisterYear == CenturyBits(BREG) * 100 + LastYearBits(BREG)

\* C18: after every Decode and every Encode the register agrees with the year
\* the call handled: its century times 100 plus its last year is the year
\* Decode returned or Encode was given, also when Decode increments a century
\* counter that holds 3.
C18_RegisterAgreesWithYear ==
    /\ (codec.op = "decode" => RegisterYear = codec.ret)
    /\ (codec.op = "encode" => RegisterYear = codec.year)

(***************************************************************************)
(* A rejected rtc_write (specification Spec).                              *)
(***************************************************************************)
\* the year since 1900 rtc_init and rtc_read decode from register and record
\* (lines 102, 151)
HardwareYear(reg, cy_time) == ReadConvertYear(reg, cy_time.year).ret

\* the register stands for the date the record holds
RegisterMatchesRecord(reg, cy_time) ==
    /\ TagIntact(reg)
    /\ LastYearBits(reg) = cy_time.year

\* C19: register and record stay consistent across a failed write: when the
\* driver rejects what WriteTime programs, the record is unchanged and the
\* register still matches it, so that Initialize and ReadTime, after the
\* restart that follows the halt, decode the same year as before the write.
C19_RejectedWriteKeepsRegister ==
    [][(/\ pc = "write_program" /\ pc' = "write_exit"
        /\ status' # CY_RTC_SUCCESS
        /\ RegisterMatchesRecord(BREG, rtc))
         => /\ rtc' = rtc
            /\ RegisterMatchesRecord(BREG', rtc')
            /\ HardwareYear(BREG', rtc') = HardwareYear(BREG, rtc)]_vars

====
